---- MODULE Spec2Model ----
(***************************************************************************)
(* Model of evoxel: the VoxelGrid value type (evoxel-core/voxel_grid.rs),  *)
(* its spatial queries, and the transform operators of evoxel-transform    *)
(* (filter.rs, translate.rs).                                              *)
(*                                                                         *)
(* A table (polars DataFrame) is a record                                  *)
(*   [count : "none" | "int" | "list", len : BOOLEAN, rows : Seq(Row)]     *)
(* where `count` is the dtype of the optional column "count", `len` says   *)
(* whether a column "len" exists, and a Row is [x, y, z, count, len]:      *)
(* count is <<>> (no column), <<c>> (scalar) or the list of a list-typed   *)
(* column; len is 0 when the column does not exist.                        *)
(*                                                                         *)
(* Machine integers are scaled down: i32 has I32Bits bits, i64 and usize   *)
(* twice as many, f64 a mantissa two bits shorter than an i64, so that     *)
(* wrap-around, the truncating cast and the inexact i64 -> f64 conversion  *)
(* all occur inside the explored range.  f64 values are modelled as the    *)
(* integers representable with F64MantBits significant bits.               *)
(*                                                                         *)
(* The caller is sequential: it holds one grid (`input`), calls one        *)
(* operation on it at a time, and drops the result (`output`, `answer`) or *)
(* moves on to the returned grid before its next call.  The bulk queries   *)
(* run as processes of their own (`pc`, `work`): one step per parallel     *)
(* task or per loop iteration.                                             *)
(*                                                                         *)
(* The libraries are modelled by their documented behaviour: nalgebra      *)
(* orders points componentwise; polars' len() names its column "len",      *)
(* filter keeps row order, group_by does not fix the order of the groups,  *)
(* and Int64 arithmetic wraps; ecoord resolves a transform or fails.       *)
(***************************************************************************)
EXTENDS Integers, Sequences, FiniteSets, TLC

VARIABLES input, output, call, stage, pc, work, answer

vars == <<input, output, call, stage, pc, work, answer>>

(* ------------------------------ bounds -------------------------------- *)

I32Bits == 3
MaxRows == 2
MaxStages == 1

I64Bits == 2 * I32Bits
UsizeBits == I64Bits
F64MantBits == I64Bits - 2

MinI64 == -(2 ^ (I64Bits - 1))
MaxI64 == 2 ^ (I64Bits - 1) - 1
MinI32 == -(2 ^ (I32Bits - 1))
MaxUsize == 2 ^ UsizeBits - 1

(* --------------------------- machine numbers -------------------------- *)

\* i64 addition as polars computes it on an Int64 column: wrapping.
WrapI64(n) == ((n - MinI64) % (2 ^ I64Bits)) + MinI64

\* `minimum as i32`: keep the low 32 bits, read as two's complement.
CastI32(n) == ((n - MinI32) % (2 ^ I32Bits)) + MinI32

RECURSIVE FloorLog2(_)
FloorLog2(m) == IF m < 2 THEN 0 ELSE 1 + FloorLog2(m \div 2)

Abs(n) == IF n < 0 THEN -n ELSE n

\* Round a real (here: an integer) to the nearest f64, ties to even.
RoundF64(n) ==
    LET m == Abs(n)
        e == FloorLog2(m)
        shift == e - F64MantBits + 1
        unit == 2 ^ shift
        q == m \div unit
        r == m % unit
        up == (2 * r > unit) \/ (2 * r = unit /\ q % 2 = 1)
        mag == IF e < F64MantBits THEN m
               ELSE (IF up THEN q + 1 ELSE q) * unit
    IN  IF n < 0 THEN -mag ELSE mag

\* `v as f64` for an i64 v.
AsF64(v) == RoundF64(v)

\* f64 multiplication and addition: the exact result, rounded.
MulF64(a, b) == RoundF64(a * b)
AddF64(a, b) == RoundF64(a + b)

(* ------------------------------ values -------------------------------- *)

Point3(px, py, pz) == <<px, py, pz>>

Axes == {1, 2, 3}

\* nalgebra's PartialOrd on Point3: `a >= b` holds iff it holds on every
\* coordinate (the componentwise partial order).
Point3Ge(a, b) == \A i \in Axes : a[i] >= b[i]

Row(px, py, pz, c, l) == [x |-> px, y |-> py, z |-> pz, count |-> c, len |-> l]

Table(c, l, rs) == [count |-> c, len |-> l, rows |-> rs]

Grid(t, i, f) == [voxel_data |-> t, info |-> i, reference_frames |-> f]

NoGrid == Grid(Table("none", FALSE, <<>>), [resolution |-> 0, frame_id |-> ""], "")

Ok(g) == [tag |-> "Ok", grid |-> g, err |-> ""]
Err(e) == [tag |-> "Err", grid |-> NoGrid, err |-> e]
Panic == [tag |-> "Panic", grid |-> NoGrid, err |-> "panic"]
NoResult == [tag |-> "None", grid |-> NoGrid, err |-> ""]

\* Result of a query: a point is a one-element sequence of points.
OkPoints(ps) == [tag |-> "Ok", points |-> ps, err |-> ""]
ErrPoints(e) == [tag |-> "Err", points |-> <<>>, err |-> e]
PanicPoints == [tag |-> "Panic", points |-> <<>>, err |-> "panic"]
NoAnswer == [tag |-> "None", points |-> <<>>, err |-> ""]
\* A call that returns ().
Unit == [tag |-> "Unit", points |-> <<>>, err |-> ""]

(* ------------------------- VoxelGrid (core) --------------------------- *)

\* data_frame_utils::check_data_integrity: the index columns exist and are
\* integer (always so for a Table) and the resolution is positive.
check_data_integrity(voxel_data, info, reference_frames) ==
    info.resolution > 0

VoxelGridNew(voxel_data, info, reference_frames) ==
    IF check_data_integrity(voxel_data, info, reference_frames)
    THEN Ok(Grid(voxel_data, info, reference_frames))
    ELSE Err("IntegrityError")

size(g) == Len(g.voxel_data.rows)

SeqMin(s) == CHOOSE v \in {s[i] : i \in DOMAIN s} : \A i \in DOMAIN s : v <= s[i]
SeqMax(s) == CHOOSE v \in {s[i] : i \in DOMAIN s} : \A i \in DOMAIN s : v >= s[i]

ColX(g) == [i \in DOMAIN g.voxel_data.rows |-> g.voxel_data.rows[i].x]
ColY(g) == [i \in DOMAIN g.voxel_data.rows |-> g.voxel_data.rows[i].y]
ColZ(g) == [i \in DOMAIN g.voxel_data.rows |-> g.voxel_data.rows[i].z]

\* Series::min() of an empty column is None; the second unwrap panics.
min_index(g) ==
    IF size(g) = 0 THEN PanicPoints
    ELSE OkPoints(<<Point3(SeqMin(ColX(g)), SeqMin(ColY(g)), SeqMin(ColZ(g)))>>)

max_index(g) ==
    IF size(g) = 0 THEN PanicPoints
    ELSE OkPoints(<<Point3(SeqMax(ColX(g)), SeqMax(ColY(g)), SeqMax(ColZ(g)))>>)

\* Point3::new(x as f64, y as f64, z as f64) * resolution
ScalePoint(p, resolution) ==
    Point3(MulF64(AsF64(p[1]), resolution),
           MulF64(AsF64(p[2]), resolution),
           MulF64(AsF64(p[3]), resolution))

min_local_center_point(g) ==
    LET m == min_index(g)
    IN  IF m.tag = "Panic" THEN PanicPoints
        ELSE OkPoints(<<ScalePoint(m.points[1], g.info.resolution)>>)

max_local_center_point(g) ==
    LET m == max_index(g)
    IN  IF m.tag = "Panic" THEN PanicPoints
        ELSE OkPoints(<<ScalePoint(m.points[1], g.info.resolution)>>)

(* --------------------- reference frames (ecoord) ---------------------- *)

FrameIds == {"local", "world", "map"}
NoTimestamp == 0
Timestamps == {1, 2}
Graphs == {"G1", "G2"}

\* ReferenceFrames::derive_transform_graph(&None, &timestamp): graph G1
\* holds no transform valid at timestamp 2.
derive_transform_graph(reference_frames, timestamp) ==
    IF reference_frames = "G1" /\ timestamp = 2
    THEN [tag |-> "Err", err |-> "NoTransformAtTimestamp", graph |-> "", ts |-> 0]
    ELSE [tag |-> "Ok", err |-> "", graph |-> reference_frames, ts |-> timestamp]

\* TransformGraph::get_isometry(TransformId(target, source)): the rigid
\* transform (a translation, in f64) or no path.  Frame "map" is connected
\* only in G2.
get_isometry(isometry_graph, target, source) ==
    IF target = source
    THEN [tag |-> "Ok", err |-> "", t |-> Point3(0, 0, 0)]
    ELSE IF target = "map" /\ isometry_graph.graph = "G1"
    THEN [tag |-> "Err", err |-> "NoTransformPath", t |-> Point3(0, 0, 0)]
    ELSE LET base == IF target = "world" THEN 1 ELSE 2
             shift == IF isometry_graph.graph = "G2" THEN 4 ELSE 0
         IN  [tag |-> "Ok", err |-> "",
              t |-> Point3(base + shift, -base, isometry_graph.ts)]

\* isometry * point
ApplyIsometry(iso, p) ==
    Point3(AddF64(p[1], iso.t[1]), AddF64(p[2], iso.t[2]), AddF64(p[3], iso.t[3]))

\* The shared tail of min_center_point / max_center_point / get_center_point:
\* derive the graph, look the isometry up, apply it; `?` returns the error.
ResolveAndApply(g, frame_id, local_frame_id, timestamp, local_point) ==
    LET isometry_graph == derive_transform_graph(g.reference_frames, timestamp)
        isometry == get_isometry(isometry_graph, frame_id, local_frame_id)
    IN  IF isometry_graph.tag = "Err" THEN ErrPoints(isometry_graph.err)
        ELSE IF isometry.tag = "Err" THEN ErrPoints(isometry.err)
        ELSE OkPoints(<<ApplyIsometry(isometry, local_point)>>)

min_center_point(g, frame_id) ==
    LET min_point == min_local_center_point(g)
    IN  IF min_point.tag = "Panic" THEN PanicPoints
        ELSE ResolveAndApply(g, frame_id, g.info.frame_id, NoTimestamp, min_point.points[1])

max_center_point(g, frame_id) ==
    LET max_point == max_local_center_point(g)
    IN  IF max_point.tag = "Panic" THEN PanicPoints
        ELSE ResolveAndApply(g, frame_id, g.info.frame_id, NoTimestamp, max_point.points[1])

\* Row indices are 0-based as in the source; ChunkedArray::get(i) is None
\* past the end and the unwrap panics.
get_cell_index(g, row_index) ==
    IF row_index >= size(g) THEN PanicPoints
    ELSE LET r == g.voxel_data.rows[row_index + 1]
         IN  OkPoints(<<Point3(r.x, r.y, r.z)>>)

get_local_frame_id(g) == g.info.frame_id

\* resolution * index.x as f64, per coordinate
get_local_center_point(g, row_idx) ==
    LET index == get_cell_index(g, row_idx)
    IN  IF index.tag = "Panic" THEN PanicPoints
        ELSE OkPoints(<<Point3(MulF64(g.info.resolution, AsF64(index.points[1][1])),
                               MulF64(g.info.resolution, AsF64(index.points[1][2])),
                               MulF64(g.info.resolution, AsF64(index.points[1][3])))>>)

get_center_point(g, row_idx, frame_id, timestamp) ==
    LET local_center_point == get_local_center_point(g, row_idx)
    IN  IF local_center_point.tag = "Panic" THEN PanicPoints
        ELSE ResolveAndApply(g, frame_id, get_local_frame_id(g), timestamp,
                             local_center_point.points[1])

(* ------------------- transform operators (filter.rs) ------------------ *)

RowKey(r) == Point3(r.x, r.y, r.z)

KeysOf(t) == {RowKey(t.rows[i]) : i \in DOMAIN t.rows}

\* The orders in which group_by (no maintain_order) may emit the groups.
GroupOrders(t) ==
    LET ks == KeysOf(t)
        n == Cardinality(ks)
    IN  {o \in [1..n -> ks] : \A i, j \in 1..n : i # j => o[i] # o[j]}

RECURSIVE Flatten(_)
Flatten(ss) == IF ss = <<>> THEN <<>> ELSE Head(ss) \o Flatten(Tail(ss))

\* group_by([x, y, z]).agg([all(), len()]): every other column is collected
\* into a list per group (rows of a group keep their order) and len() adds
\* the group's row count under the name "len".  all() already yields a
\* column "len" when the input has one, and polars rejects the duplicate.
aggregate_by_index(g, order) ==
    LET t == g.voxel_data
        members(k) == SelectSeq(t.rows, LAMBDA r : RowKey(r) = k)
        group(k) ==
            Row(k[1], k[2], k[3],
                Flatten([i \in DOMAIN members(k) |-> members(k)[i].count]),
                Len(members(k)))
        partitioned ==
            Table(IF t.count = "none" THEN "none" ELSE "list", TRUE,
                  [i \in DOMAIN order |-> group(order[i])])
    IN  IF t.len THEN Err("DuplicateColumn")
        ELSE VoxelGridNew(partitioned, g.info, g.reference_frames)

\* explode(list-typed columns): one output row per list element, scalar
\* columns replicated.  With no list-typed column the column list is empty:
\* polars either returns the frame unchanged or rejects the call, depending
\* on its version (`lenient`).
explode(g, lenient) ==
    LET t == g.voxel_data
        unpack(r) == [i \in DOMAIN r.count |-> Row(r.x, r.y, r.z, <<r.count[i]>>, r.len)]
        df == Table("int", t.len, Flatten([i \in DOMAIN t.rows |-> unpack(t.rows[i])]))
    IN  IF t.count # "list"
        THEN IF lenient THEN VoxelGridNew(t, g.info, g.reference_frames)
             ELSE Err("InvalidOperation")
        ELSE VoxelGridNew(df, g.info, g.reference_frames)

\* filter_by_count with the mask built by gt instead of gt_eq.
filter_by_count_strict(g, minimum) ==
    LET t == g.voxel_data
        threshold == ((minimum + 2 ^ (I32Bits - 1)) % (2 ^ I32Bits)) - 2 ^ (I32Bits - 1)
    IN  IF t.count = "none" THEN [tag |-> "Err", grid |-> NoGrid, err |-> "ColumnNotFound"]
        ELSE IF t.count = "list"
        THEN [tag |-> "Err", grid |-> NoGrid, err |-> "InvalidOperation"]
        ELSE [tag |-> "Ok", err |-> "",
              grid |-> [g EXCEPT !.voxel_data.rows =
                           SelectSeq(t.rows, LAMBDA r : r.count[1] > threshold)]]

\* column("count")? fails without the column; gt_eq(minimum as i32) builds
\* the mask; a list-typed column cannot be compared with a scalar.
filter_by_count(g, minimum) ==
    LET t == g.voxel_data
        threshold == CastI32(minimum)
        filtered_voxel_data ==
            Table(t.count, t.len, SelectSeq(t.rows, LAMBDA r : r.count[1] >= threshold))
    IN  IF t.count = "none" THEN Err("ColumnNotFound")
        ELSE IF t.count = "list" THEN Err("InvalidOperation")
        ELSE VoxelGridNew(filtered_voxel_data, g.info, g.reference_frames)

\* filter_by_index_bounds with the upper corner excluded (lt for lt_eq).
filter_by_index_bounds_exclusive(g, lower_corner, upper_corner) ==
    LET t == g.voxel_data
        inside(r) == /\ r.x >= lower_corner[1] /\ r.x < upper_corner[1]
                     /\ r.y >= lower_corner[2] /\ r.y < upper_corner[2]
                     /\ r.z >= lower_corner[3] /\ r.z < upper_corner[3]
    IN  IF \A i \in {1, 2, 3} : lower_corner[i] >= upper_corner[i]
        THEN [tag |-> "Err", grid |-> NoGrid, err |-> "LowerCornerMustBeBelowUpperCorner"]
        ELSE [tag |-> "Ok", err |-> "",
              grid |-> [g EXCEPT !.voxel_data.rows = SelectSeq(t.rows, inside)]]

filter_by_index_bounds(g, lower_corner, upper_corner) ==
    LET t == g.voxel_data
        fx == SelectSeq(t.rows, LAMBDA r : r.x >= lower_corner[1] /\ r.x <= upper_corner[1])
        fy == SelectSeq(fx, LAMBDA r : r.y >= lower_corner[2] /\ r.y <= upper_corner[2])
        fz == SelectSeq(fy, LAMBDA r : r.z >= lower_corner[3] /\ r.z <= upper_corner[3])
    IN  IF Point3Ge(lower_corner, upper_corner)
        THEN Err("LowerCornerMustBeBelowUpperCorner")
        ELSE VoxelGridNew(Table(t.count, t.len, fz), g.info, g.reference_frames)

(* ------------------------ translate (translate.rs) -------------------- *)

\* translate with saturating instead of wrapping addition.
translate_saturating(g, translation) ==
    LET lo == -(2 ^ (I64Bits - 1))
        hi == 2 ^ (I64Bits - 1) - 1
        sat(n) == IF n > hi THEN hi ELSE IF n < lo THEN lo ELSE n
    IN  [tag |-> "Ok", err |-> "",
         grid |-> [g EXCEPT !.voxel_data.rows =
                      [i \in DOMAIN @ |->
                         [@[i] EXCEPT !.x = sat(@ + translation[1]),
                                      !.y = sat(@ + translation[2]),
                                      !.z = sat(@ + translation[3])]]]]

\* translate building its result on a fresh frame graph instead of the
\* input's.
translate_resetting_frames(g, translation) ==
    LET m == 2 ^ I64Bits
        lo == -(2 ^ (I64Bits - 1))
        wrap(n) == ((n - lo) % m) + lo
    IN  [tag |-> "Ok", err |-> "",
         grid |-> [g EXCEPT !.reference_frames = "G1",
                            !.voxel_data.rows =
                      [i \in DOMAIN @ |->
                         [@[i] EXCEPT !.x = wrap(@ + translation[1]),
                                      !.y = wrap(@ + translation[2]),
                                      !.z = wrap(@ + translation[3])]]]]

\* apply("x", |x| x + translation.x) etc.; from_data_frame(..).unwrap()
\* panics if the integrity check fails.
translate(g, translation) ==
    LET t == g.voxel_data
        translated_data ==
            Table(t.count, t.len,
                  [i \in DOMAIN t.rows |->
                     [t.rows[i] EXCEPT !.x = WrapI64(@ + translation[1]),
                                       !.y = WrapI64(@ + translation[2]),
                                       !.z = WrapI64(@ + translation[3])]])
        made == VoxelGridNew(translated_data, g.info, g.reference_frames)
    IN  IF made.tag = "Ok" THEN made ELSE Panic

(* ------------------------------- inputs ------------------------------- *)

Cells == { Point3(0, 0, 0), Point3(1, 2, 0), Point3(2, MinI64, MaxI64) }
Resolutions == {3}
CornerVals == {0, 2}
Corners == {Point3(a, b, c) : a \in CornerVals, b \in CornerVals, c \in CornerVals}
Deltas == { Point3(0, 0, 0), Point3(1, -1, 2), Point3(MaxI64, MinI64, -1) }
Minimums == {0, 1, 2, 2 ^ (I32Bits - 1), 2 ^ I32Bits, MaxUsize}
RowIndices == 0..MaxRows

SeqsUpTo(S, n) == UNION {[1..k -> S] : k \in 0..n}

\* The count columns of the initial tables: none, the row's position
\* (0, 1, 2, ...), or 2 in every row.
CountColumns == {"none", "position", "two"}

InitRow(c, column, i) ==
    Row(c[1], c[2], c[3],
        IF column = "none" THEN <<>> ELSE IF column = "position" THEN <<i - 1>> ELSE <<2>>,
        0)

InitTables ==
    {Table(IF column = "none" THEN "none" ELSE "int", FALSE,
           [i \in DOMAIN cs |-> InitRow(cs[i], column, i)]) :
        cs \in SeqsUpTo(Cells, MaxRows), column \in CountColumns}

NoCall ==
    [op |-> "none", lower |-> Point3(0, 0, 0), upper |-> Point3(0, 0, 0),
     delta |-> Point3(0, 0, 0), minimum |-> 0, row |-> 0, frame |-> "", ts |-> 0]

\* Locals of a bulk query in progress: the rows whose parallel task has not
\* run yet, the order in which tasks completed, the two result vectors, and
\* the loop index and the number of get_center_point calls of the
\* sequential query.
NoWork ==
    [pending |-> {}, completed |-> <<>>, indices |-> <<>>, points |-> <<>>,
     i |-> 0, evaluated |-> 0]

(* ------------------------- bulk queries (core) ------------------------ *)

\* A collect that pushes each result as its task completes.
par_collect_in_completion_order(slots, i, v) ==
    LET k == CHOOSE j \in DOMAIN slots :
                 slots[j] = <<>> /\ \A h \in 1..(j - 1) : slots[h] # <<>>
    IN  [slots EXCEPT ![k] = v]

\* rayon's collect() of an indexed parallel iterator: the task of item i
\* writes slot i of the result, whenever it runs.
par_collect(slots, i, v) == [slots EXCEPT ![i + 1] = v]

EmptySlots(n) == [k \in 1..n |-> <<>>]

\* A collect that drops a failed row and goes on (filter_map(Result::ok)).
try_collect_skipping_errors(w, r) ==
    IF r.tag = "Ok"
    THEN [pc |-> "all_center_points",
          work |-> [w EXCEPT !.points = Append(@, r.points[1]),
                             !.i = @ + 1, !.evaluated = @ + 1],
          answer |-> [tag |-> "None", points |-> <<>>, err |-> ""]]
    ELSE [pc |-> "all_center_points",
          work |-> [w EXCEPT !.i = @ + 1, !.evaluated = @ + 1],
          answer |-> [tag |-> "None", points |-> <<>>, err |-> ""]]

\* collect::<Result<Vec<_>, Error>>() over the sequential map: an Ok item is
\* pushed and the loop goes on, the first Err (or a panic) ends the call.
try_collect(w, r) ==
    IF r.tag = "Ok"
    THEN [pc |-> "all_center_points",
          work |-> [w EXCEPT !.points = Append(@, r.points[1]),
                             !.i = @ + 1, !.evaluated = @ + 1],
          answer |-> NoAnswer]
    ELSE [pc |-> "idle",
          work |-> [w EXCEPT !.evaluated = @ + 1],
          answer |-> r]

(* ------------------------------ actions ------------------------------- *)

Init ==
    /\ \E t \in InitTables, r \in Resolutions :
          input = Grid(t, [resolution |-> r, frame_id |-> "local"], "G1")
    /\ output = NoResult
    /\ call = NoCall
    /\ stage = 0
    /\ pc = "idle"
    /\ work = NoWork
    /\ answer = NoAnswer

Fresh == pc = "idle" /\ output.tag = "None" /\ answer.tag = "None"

\* A transform operator is called on `input` (borrowed, &VoxelGrid) and its
\* result is bound to `output`.
Transformed(c, result) ==
    /\ Fresh
    /\ call' = c
    /\ output' = result
    /\ answer' = NoAnswer
    /\ UNCHANGED <<input, stage, pc, work>>

AggregateByIndex ==
    \E order \in GroupOrders(input.voxel_data) :
        Transformed([NoCall EXCEPT !.op = "aggregate_by_index"],
                    aggregate_by_index(input, order))

Explode ==
    \E lenient \in BOOLEAN :
        Transformed([NoCall EXCEPT !.op = "explode"], explode(input, lenient))

FilterByCount ==
    \E minimum \in Minimums :
        Transformed([NoCall EXCEPT !.op = "filter_by_count", !.minimum = minimum],
                    filter_by_count(input, minimum))

FilterByIndexBounds ==
    \E lower \in Corners, upper \in Corners :
        Transformed([NoCall EXCEPT !.op = "filter_by_index_bounds",
                                   !.lower = lower, !.upper = upper],
                    filter_by_index_bounds(input, lower, upper))

Translate ==
    \E delta \in Deltas :
        Transformed([NoCall EXCEPT !.op = "translate", !.delta = delta],
                    translate(input, delta))

\* The caller feeds the grid an operator returned into the next operator
\* of its pipeline; the previous grid is dropped.
NextStage ==
    /\ pc = "idle"
    /\ output.tag = "Ok"
    /\ stage < MaxStages
    /\ input' = output.grid
    /\ output' = NoResult
    /\ call' = NoCall
    /\ stage' = stage + 1
    /\ answer' = NoAnswer
    /\ UNCHANGED <<pc, work>>

\* VoxelGrid::set_reference_frames(&mut self, reference_frames)
SetReferenceFrames ==
    /\ Fresh
    /\ \E reference_frames \in Graphs :
          input' = [input EXCEPT !.reference_frames = reference_frames]
    /\ call' = [NoCall EXCEPT !.op = "set_reference_frames"]
    /\ answer' = Unit
    /\ UNCHANGED <<output, stage, pc, work>>

(* ------------------------------ queries ------------------------------- *)

Answered(c, result) ==
    /\ Fresh
    /\ call' = c
    /\ answer' = result
    /\ UNCHANGED <<input, output, stage, pc, work>>

MinIndex == Answered([NoCall EXCEPT !.op = "min_index"], min_index(input))

MaxIndex == Answered([NoCall EXCEPT !.op = "max_index"], max_index(input))

MinLocalCenterPoint ==
    Answered([NoCall EXCEPT !.op = "min_local_center_point"], min_local_center_point(input))

MaxLocalCenterPoint ==
    Answered([NoCall EXCEPT !.op = "max_local_center_point"], max_local_center_point(input))

MinCenterPoint ==
    \E frame_id \in FrameIds :
        Answered([NoCall EXCEPT !.op = "min_center_point", !.frame = frame_id],
                 min_center_point(input, frame_id))

MaxCenterPoint ==
    \E frame_id \in FrameIds :
        Answered([NoCall EXCEPT !.op = "max_center_point", !.frame = frame_id],
                 max_center_point(input, frame_id))

GetCellIndex ==
    \E row_index \in RowIndices :
        Answered([NoCall EXCEPT !.op = "get_cell_index", !.row = row_index],
                 get_cell_index(input, row_index))

GetLocalCenterPoint ==
    \E row_idx \in RowIndices :
        Answered([NoCall EXCEPT !.op = "get_local_center_point", !.row = row_idx],
                 get_local_center_point(input, row_idx))

GetCenterPoint ==
    \E row_idx \in RowIndices, frame_id \in FrameIds, timestamp \in Timestamps :
        Answered([NoCall EXCEPT !.op = "get_center_point", !.row = row_idx,
                                !.frame = frame_id, !.ts = timestamp],
                 get_center_point(input, row_idx, frame_id, timestamp))

\* get_all_cell_indices_in_local_frame, also the first half of
\* get_all_center_points_in_local_frame: (0..size).into_par_iter().map(..)
StartAllCellIndices ==
    /\ Fresh
    /\ \E op \in {"get_all_cell_indices_in_local_frame",
                  "get_all_center_points_in_local_frame"} :
          call' = [NoCall EXCEPT !.op = op]
    /\ pc' = "cell_indices"
    /\ work' = [NoWork EXCEPT !.pending = 0..(size(input) - 1),
                              !.indices = EmptySlots(size(input))]
    /\ UNCHANGED <<input, output, stage, answer>>

\* One parallel task of the map over the row numbers.
MapCellIndex ==
    /\ pc = "cell_indices"
    /\ \E i \in work.pending :
          work' = [work EXCEPT
                     !.pending = @ \ {i},
                     !.completed = Append(@, i),
                     !.indices = par_collect(@, i, get_cell_index(input, i).points[1])]
    /\ UNCHANGED <<input, output, call, stage, pc, answer>>

\* collect() returns once every task has run.
CollectCellIndices ==
    /\ pc = "cell_indices"
    /\ work.pending = {}
    /\ IF call.op = "get_all_cell_indices_in_local_frame"
       THEN /\ pc' = "idle"
            /\ answer' = OkPoints(work.indices)
            /\ work' = work
       ELSE /\ pc' = "center_points"
            /\ answer' = answer
            /\ work' = [work EXCEPT !.pending = 0..(size(input) - 1),
                                    !.completed = <<>>,
                                    !.points = EmptySlots(size(input))]
    /\ UNCHANGED <<input, output, call, stage>>

\* One parallel task of all_indices.par_iter().map(|c| resolution * c as f64)
MapCenterPoint ==
    /\ pc = "center_points"
    /\ \E i \in work.pending :
          LET c == work.indices[i + 1]
              p == Point3(MulF64(input.info.resolution, AsF64(c[1])),
                          MulF64(input.info.resolution, AsF64(c[2])),
                          MulF64(input.info.resolution, AsF64(c[3])))
          IN  work' = [work EXCEPT !.pending = @ \ {i},
                                   !.completed = Append(@, i),
                                   !.points = par_collect(@, i, p)]
    /\ UNCHANGED <<input, output, call, stage, pc, answer>>

CollectCenterPoints ==
    /\ pc = "center_points"
    /\ work.pending = {}
    /\ pc' = "idle"
    /\ answer' = OkPoints(work.points)
    /\ UNCHANGED <<input, output, call, stage, work>>

\* get_all_center_points: the sequential loop over 0..size
StartAllCenterPoints ==
    /\ Fresh
    /\ \E frame_id \in FrameIds, timestamp \in Timestamps :
          call' = [NoCall EXCEPT !.op = "get_all_center_points",
                                 !.frame = frame_id, !.ts = timestamp]
    /\ pc' = "all_center_points"
    /\ work' = NoWork
    /\ UNCHANGED <<input, output, stage, answer>>

NextCenterPoint ==
    /\ pc = "all_center_points"
    /\ work.i < size(input)
    /\ LET r == get_center_point(input, work.i, call.frame, call.ts)
           step == try_collect(work, r)
       IN  /\ pc' = step.pc
           /\ work' = step.work
           /\ answer' = step.answer
    /\ UNCHANGED <<input, output, call, stage>>

FinishAllCenterPoints ==
    /\ pc = "all_center_points"
    /\ work.i = size(input)
    /\ pc' = "idle"
    /\ answer' = OkPoints(work.points)
    /\ UNCHANGED <<input, output, call, stage, work>>

\* The caller drops a result (or an answer) before its next call.
Drop ==
    /\ pc = "idle"
    /\ output.tag # "None" \/ answer.tag # "None"
    /\ output' = NoResult
    /\ answer' = NoAnswer
    /\ call' = NoCall
    /\ work' = NoWork
    /\ UNCHANGED <<input, stage, pc>>

Next ==
    \/ AggregateByIndex
    \/ Explode
    \/ FilterByCount
    \/ FilterByIndexBounds
    \/ Translate
    \/ NextStage
    \/ SetReferenceFrames
    \/ MinIndex
    \/ MaxIndex
    \/ MinLocalCenterPoint
    \/ MaxLocalCenterPoint
    \/ MinCenterPoint
    \/ MaxCenterPoint
    \/ GetCellIndex
    \/ GetLocalCenterPoint
    \/ GetCenterPoint
    \/ StartAllCellIndices
    \/ MapCellIndex
    \/ CollectCellIndices
    \/ MapCenterPoint
    \/ CollectCenterPoints
    \/ StartAllCenterPoints
    \/ NextCenterPoint
    \/ FinishAllCenterPoints
    \/ Drop

Spec == Init /\ [][Next]_vars

(* ------------------------------ properties ---------------------------- *)

TransformOps ==
    {"aggregate_by_index", "explode", "filter_by_count", "filter_by_index_bounds", "translate"}

Returned(op) == pc = "idle" /\ call.op = op /\ output.tag # "None"

Replied(op) == pc = "idle" /\ call.op = op /\ answer.tag # "None"

InRows(g) == g.voxel_data.rows

OutRows == output.grid.voxel_data.rows

\* Number of rows of rs whose index triple is k.
Multiplicity(rs, k) == Len(SelectSeq(rs, LAMBDA r : RowKey(r) = k))

KeysOfRows(rs) == {RowKey(rs[i]) : i \in DOMAIN rs}

InBox(r, lower, upper) ==
    /\ lower[1] <= r.x /\ r.x <= upper[1]
    /\ lower[2] <= r.y /\ r.y <= upper[2]
    /\ lower[3] <= r.z /\ r.z <= upper[3]

StrictlyBelow(lower, upper) == \A i \in Axes : lower[i] < upper[i]

\* C1: filter_by_index_bounds fails with LowerCornerMustBeBelowUpperCorner
\* whenever lower >= upper on at least one axis (a single tied or reversed
\* axis is enough).
C1_OrderErrorOnAnyAxis ==
    (Returned("filter_by_index_bounds")
       /\ \E i \in Axes : call.lower[i] >= call.upper[i])
    => (output.tag = "Err" /\ output.err = "LowerCornerMustBeBelowUpperCorner")

\* C2: aggregate_by_index returns one row per distinct index triple, each
\* with a column `count` holding the number of input rows of that triple.
C2_AggregateCountsRows ==
    Returned("aggregate_by_index")
    => /\ output.tag = "Ok"
       /\ KeysOfRows(OutRows) = KeysOfRows(InRows(input))
       /\ Len(OutRows) = Cardinality(KeysOfRows(InRows(input)))
       /\ \A i \in DOMAIN OutRows :
             /\ output.grid.voxel_data.count = "int"
             /\ OutRows[i].count = <<Multiplicity(InRows(input), RowKey(OutRows[i]))>>

\* C3: with lower < upper on every axis, filter_by_index_bounds succeeds and
\* keeps exactly the rows inside the inclusive box, with their multiplicity
\* and in their order; the columns are those of the input.
C3_BoundsFilterKeepsTheBox ==
    (Returned("filter_by_index_bounds") /\ StrictlyBelow(call.lower, call.upper))
    => /\ output.tag = "Ok"
       /\ OutRows = SelectSeq(InRows(input), LAMBDA r : InBox(r, call.lower, call.upper))
       /\ output.grid.voxel_data.count = input.voxel_data.count
       /\ output.grid.voxel_data.len = input.voxel_data.len

\* C3 witness: a strictly ordered box has kept a row on its upper face and
\* dropped a row outside it.
C3_Witness ==
    /\ Returned("filter_by_index_bounds")
    /\ StrictlyBelow(call.lower, call.upper)
    /\ Len(OutRows) >= 1
    /\ Len(OutRows) < Len(InRows(input))
    /\ \E i \in DOMAIN OutRows : \E a \in Axes : RowKey(OutRows[i])[a] = call.upper[a]

\* C4 (as claimed): filter_by_count(g, 0) returns a grid equal to g for every
\* grid g, with or without a count column.
C4_CountZeroIsIdentityOnAnyGrid ==
    (Returned("filter_by_count") /\ call.minimum = 0) => output = Ok(input)

\* C4 (amended): filter_by_count(g, 0) returns a grid equal to g for every
\* grid g that has an integer count column with non-negative values;
\* without a count column the call fails.
C4_CountZeroIsIdentityWithCountColumn ==
    (Returned("filter_by_count") /\ call.minimum = 0)
    => /\ (input.voxel_data.count = "int"
             /\ \A i \in DOMAIN InRows(input) : InRows(input)[i].count[1] >= 0)
          => output = Ok(input)
       /\ input.voxel_data.count = "none" => output.tag = "Err"

\* C4 witness: filter_by_count(g, 0) has returned g, which holds a row of
\* count 0 and another row.
C4_Witness ==
    /\ Returned("filter_by_count")
    /\ call.minimum = 0
    /\ output.tag = "Ok"
    /\ Len(OutRows) >= 2
    /\ \E i \in DOMAIN OutRows : OutRows[i].count = <<0>>

\* -d in i64 (wrapping_neg).
NegI64(d) == Point3(WrapI64(-d[1]), WrapI64(-d[2]), WrapI64(-d[3]))

\* a = b + d modulo 2^64, a in the i64 range.
SumModI64(a, b, d) ==
    /\ MinI64 <= a /\ a <= MaxI64
    /\ \E k \in {-1, 0, 1} : a = b + d + k * (2 ^ I64Bits)

\* C5: translate(g, d) has as many rows as g, row i holding row i's index
\* plus d componentwise (modulo 2^64), and translate(translate(g, d), -d) has
\* the index multiset of g.
C5_TranslateAddsAndRoundTrips ==
    Returned("translate")
    => /\ output.tag = "Ok"
       /\ Len(OutRows) = Len(InRows(input))
       /\ \A i \in DOMAIN OutRows :
             /\ SumModI64(OutRows[i].x, InRows(input)[i].x, call.delta[1])
             /\ SumModI64(OutRows[i].y, InRows(input)[i].y, call.delta[2])
             /\ SumModI64(OutRows[i].z, InRows(input)[i].z, call.delta[3])
       /\ LET back == translate(output.grid, NegI64(call.delta))
          IN  /\ back.tag = "Ok"
              /\ \A k \in KeysOfRows(InRows(input)) \cup KeysOfRows(InRows(back.grid)) :
                    Multiplicity(InRows(back.grid), k) = Multiplicity(InRows(input), k)

\* C5 witness: a translation has carried an index past the i64 range.
C5_Witness ==
    /\ Returned("translate")
    /\ output.tag = "Ok"
    /\ \E i \in DOMAIN InRows(input) :
          \/ InRows(input)[i].x + call.delta[1] > MaxI64
          \/ InRows(input)[i].y + call.delta[2] < MinI64

FailingRows(g, frame_id, timestamp) ==
    {i \in 0..(size(g) - 1) : get_center_point(g, i, frame_id, timestamp).tag # "Ok"}

SetMin(S) == CHOOSE v \in S : \A w \in S : v <= w

\* C6: get_all_center_points returns the error of the first failing row and
\* evaluates no row after it; with no failing row it returns the sequence of
\* get_center_point(i), i in row order.
C6_AllCenterPointsAllOrNothing ==
    Replied("get_all_center_points")
    => LET failing == FailingRows(input, call.frame, call.ts)
       IN  IF failing # {}
           THEN /\ answer = get_center_point(input, SetMin(failing), call.frame, call.ts)
                /\ answer.tag = "Err"
                /\ answer.points = <<>>
                /\ work.evaluated = SetMin(failing) + 1
           ELSE /\ answer.tag = "Ok"
                /\ Len(answer.points) = size(input)
                /\ \A i \in 0..(size(input) - 1) :
                      answer.points[i + 1]
                        = get_center_point(input, i, call.frame, call.ts).points[1]

\* C6 witness: on a grid of two or more rows the call has failed after
\* evaluating one row.
C6_Witness ==
    /\ Replied("get_all_center_points")
    /\ size(input) >= 2
    /\ answer.tag = "Err"
    /\ work.evaluated = 1

ExtremeOps ==
    {"min_index", "max_index", "min_local_center_point", "max_local_center_point",
     "min_center_point", "max_center_point"}

\* C7: on a grid with zero rows the extreme queries return EmptyGridError;
\* on a nonempty grid min_index and max_index are the componentwise minimum
\* and maximum of the index columns.
C7_ExtremesOfEmptyGridAreAnError ==
    /\ (\E op \in ExtremeOps : Replied(op)) /\ size(input) = 0
       => (answer.tag = "Err" /\ answer.err = "EmptyGridError")
    /\ (Replied("min_index") /\ size(input) > 0)
       => /\ answer.tag = "Ok"
          /\ \A i \in DOMAIN InRows(input) :
                \A a \in Axes : answer.points[1][a] <= RowKey(InRows(input)[i])[a]
          /\ \A a \in Axes : answer.points[1][a] <= max_index(input).points[1][a]
    /\ (Replied("max_index") /\ size(input) > 0)
       => /\ answer.tag = "Ok"
          /\ \A i \in DOMAIN InRows(input) :
                \A a \in Axes : answer.points[1][a] >= RowKey(InRows(input)[i])[a]

\* C8: a transform operator leaves its input grid as it was and returns a
\* grid with the input's info and reference frames; a grid that exists only
\* changes by set_reference_frames, which leaves its table and info alone.
\* (input' = output.grid is the caller moving on to the returned grid.)
C8_TransformsReturnNewGrids ==
    [][ /\ (call'.op \in TransformOps /\ output.tag = "None" /\ output'.tag # "None")
           => /\ input' = input
              /\ output'.tag = "Ok"
                 => /\ output'.grid.info = input.info
                    /\ output'.grid.reference_frames = input.reference_frames
        /\ input' # input
           => \/ /\ call'.op = "set_reference_frames"
                 /\ input'.voxel_data = input.voxel_data
                 /\ input'.info = input.info
              \/ /\ output.tag = "Ok"
                 /\ input' = output.grid
                 /\ stage' = stage + 1
        /\ (output.tag = "Ok" /\ output'.tag = "Ok") => output' = output
      ]_vars

\* C8 witness: the second operator of a pipeline has returned a grid with
\* another table, after the frame graph of its input was replaced.
C8_Witness ==
    /\ \E op \in TransformOps : Returned(op)
    /\ output.tag = "Ok"
    /\ stage = 1
    /\ input.reference_frames = "G2"
    /\ output.grid.voxel_data # input.voxel_data

\* C9: get_all_center_points_in_local_frame()[i] is get_local_center_point(i),
\* the cell index times the resolution, and
\* get_all_cell_indices_in_local_frame()[i] is get_cell_index(i); both have
\* size() elements, whatever order the parallel tasks completed in.
C9_BulkLocalQueriesInRowOrder ==
    /\ Replied("get_all_cell_indices_in_local_frame")
       => /\ answer.tag = "Ok"
          /\ Len(answer.points) = size(input)
          /\ \A i \in 0..(size(input) - 1) :
                answer.points[i + 1] = get_cell_index(input, i).points[1]
    /\ Replied("get_all_center_points_in_local_frame")
       => /\ answer.tag = "Ok"
          /\ Len(answer.points) = size(input)
          /\ \A i \in 0..(size(input) - 1) :
                /\ answer.points[i + 1] = get_local_center_point(input, i).points[1]
                /\ \A a \in Axes :
                      answer.points[i + 1][a]
                        = RoundF64(RoundF64(RowKey(InRows(input)[i + 1])[a])
                                     * input.info.resolution)

\* C9 witness: the center points of two different cells were collected with
\* the task of the second row completing first.
C9_Witness ==
    /\ Replied("get_all_center_points_in_local_frame")
    /\ size(input) >= 2
    /\ RowKey(InRows(input)[1]) # RowKey(InRows(input)[2])
    /\ work.completed[1] > work.completed[2]

\* C10: filter_by_count keeps exactly the rows whose count is >= minimum,
\* for every minimum of the parameter type.
C10_CountFilterUsesMinimumItself ==
    (Returned("filter_by_count") /\ input.voxel_data.count = "int")
    => /\ output.tag = "Ok"
       /\ OutRows = SelectSeq(InRows(input), LAMBDA r : r.count[1] >= call.minimum)

====
